---- MODULE Spec2Model ----
(***************************************************************************)
(* tg-keyword-watcher: the idempotent forwarding ledger (app/db/repo.py)   *)
(* and the connection supervisor with its live event dispatcher            *)
(* (app/bot/runtime.py), as state machines.                                *)
(***************************************************************************)
EXTENDS Integers, Sequences, FiniteSets, TLC

----------------------------------------------------------------------------
\* Bounds of the model.

\* concurrent callers of the ledger (tasks holding a pool connection)
NumWorkers == 2
\* distinct (source_chat_id, source_message_id) keys
NumKeys == 1
\* seconds the clock may advance one by one within a day
MaxTicks == 2
\* largest pending_timeout_seconds a caller passes
MaxRetry == 2
\* days the clock may advance in whole-day sleeps
MaxDays == 30
\* successful forwards recorded per key before the workers stop forwarding
MaxForwards == 2
\* TelegramClient objects the supervisor creates
MaxClients == 2
\* soft restarts requested through the admin route
MaxRestarts == 1
\* rows the runtime adds to event_log
MaxLogRows == 2
\* characters of a title under study
MaxTitleLen == 3
\* calls of Repo.cleanup in one behaviour
MaxCleanups == 2
\* message ids of a channel
MaxMessageId == 3

\* Program constants.
SecondsPerDay == 86400
\* the hour of the day, UTC, at which the retention cleaner runs
CleanupHour == 3
LogRetentionDays == 7
ForwardsRetentionDays == 30

Workers == 1..NumWorkers
Keys == 1..NumKeys
RetryChoices == 1..MaxRetry
Errors == {"x"}

NoWorker == 0
NULL == -1

----------------------------------------------------------------------------
\* State.

VARIABLES
    clock,      \* datetime.now(timezone.utc), in seconds
    rows,       \* table forwarded_messages: key -> row, or NoRow
    lock,       \* key -> the worker whose open transaction holds the row lock
    event_log,  \* table event_log: the rows, as [message, created_at]
    pc,         \* worker -> position in its call
    key,        \* worker -> (source_chat_id, source_message_id) of its call
    tnow,       \* worker -> `now` of forwarded_claim
    retry,      \* worker -> pending_timeout_seconds of forwarded_claim
    seen,       \* worker -> `row` fetched by forwarded_claim
    result,     \* worker -> what forwarded_claim returned
    forwards,   \* key -> number of relays emitted for the message
    takeover,   \* key -> a claim was granted while another worker still held one
    purged,     \* key -> cleanup has deleted a row of the key
    sent_applied, \* key -> forwarded_mark_sent has updated a row of the key
    TARGET_CHANNEL,     \* os.environ["TARGET_CHANNEL"]
    api_configured,     \* TELEGRAM_API_ID is a positive number, TELEGRAM_API_HASH is set
    session_exists,     \* os.path.exists(session_path)
    bot_state,          \* table bot_state: the singleton row
    stop_event,         \* BotRuntime._stop_event
    status_connected,   \* app_status.connected
    status_error,       \* app_status.last_error
    status_event,       \* app_status.last_event_message
    connected_cache,    \* BotRuntime._connected_cache
    last_error_cache,   \* BotRuntime._last_error_cache
    run_loop,           \* position of the task in _run_loop
    resume,             \* the caller waiting for _disconnect_client
    ok,                 \* what _ensure_connected returned in this tick
    branch,             \* the branch of _run_loop this tick has taken
    scan,               \* the dialogs iter_dialogs yielded in this tick
    last_restart_seen,  \* local of _run_loop
    client,             \* BotRuntime._client
    target_chat_id,     \* BotRuntime._target_chat_id
    target_title,       \* BotRuntime._target_title
    handlers_installed, \* BotRuntime._handlers_installed
    clients_created,    \* number of TelegramClient objects created so far
    conn,               \* client -> TelegramClient.is_connected()
    handlers,           \* client -> handlers registered with add_event_handler
    inflight,           \* the write an invocation of _on_new_message is awaiting
    relay_target,       \* the channel the latest dialogs scan resolved as target
    prev_resolution,    \* id and title of the previous successful resolution
    resolved_written,   \* the tick wrote a "Target channel resolved" event
    tick_writes,        \* writes of the supervisor's reporting in the current tick
    prev_report,        \* the caches at the end of the previous tick
    phase,              \* titles: "input", "pair", "done"
    title_in,           \* a title
    title_var,          \* a title that differs from title_in in one respect
    relation,           \* the respect in which title_var differs
    norm_in,            \* _normalize_title(title_in)
    norm_var,           \* _normalize_title(title_var)
    norm_twice,         \* _normalize_title(_normalize_title(title_in))
    db_up,              \* the pool hands out connections and the database answers
    pool_closed,        \* on_shutdown has closed the pool
    handler_raised,     \* an exception has left _on_new_message
    cleaner,            \* where the _cleanup_loop task stands
    cleanup_result,     \* the dict the latest Repo.cleanup returned
    cleanup_fresh,      \* no time has passed since the latest Repo.cleanup
    cleanup_calls,      \* calls of Repo.cleanup that went through
    channel_checkpoint, \* the table channel_checkpoint, by channel_id
    checkpoint_call,    \* the arguments of the latest checkpoint_upsert
    now_utc,            \* datetime.now(timezone.utc) in _cleanup_loop
    next_run,           \* next_run of _cleanup_loop
    sleep_seconds,      \* sleep_seconds of _cleanup_loop
    schedule,           \* "now", "computed", "raised"
    backend_ok          \* from now on the backend accepts the connection

ledgerVars == <<rows, lock, event_log>>
workerVars == <<pc, key, tnow, retry, seen, result>>
ghostVars == <<forwards, takeover, purged, sent_applied>>
forwardingVars == <<clock, rows, lock, workerVars>>
envVars == <<TARGET_CHANNEL, api_configured, session_exists>>
controlVars == <<bot_state, stop_event>>
statusVars == <<status_connected, status_error, status_event>>
cacheVars == <<connected_cache, last_error_cache>>
supVars == <<run_loop, resume, ok, branch, scan, last_restart_seen, client, target_chat_id,
             target_title, handlers_installed>>
clientVars == <<clients_created, conn, handlers>>
tickVars == <<prev_resolution, resolved_written, tick_writes, prev_report>>
runtimeVars == <<envVars, controlVars, statusVars, cacheVars, supVars, clientVars,
                 inflight, relay_target, tickVars>>
allGhosts == <<ghostVars, relay_target, tickVars>>
titleVars == <<phase, title_in, title_var, relation, norm_in, norm_var, norm_twice>>
hostVars == <<db_up, pool_closed, handler_raised>>
cleanerVars == <<cleaner, cleanup_result, cleanup_fresh, cleanup_calls>>
storeVars == <<channel_checkpoint, checkpoint_call>>
scheduleVars == <<now_utc, next_run, sleep_seconds, schedule>>
sideVars == <<storeVars, scheduleVars, backend_ok>>
auxVars == <<titleVars, hostVars, cleanerVars, sideVars>>
programVars == <<clock, ledgerVars, workerVars, ghostVars, runtimeVars>>
vars == <<programVars, auxVars>>

NoRow == [status |-> "absent", created_at |-> NULL, updated_at |-> NULL,
          fail_count |-> 0, last_error |-> "NULL"]

----------------------------------------------------------------------------
\* Repo.forwarded_claim, forwarded_mark_sent, forwarded_mark_failed, cleanup.

\* timeout = now - timedelta(seconds=pending_timeout_seconds)
Timeout(now, seconds) == now - seconds

\* the composite key of forwarded_messages: an INSERT of a key that has a row
\* raises UniqueViolationError
KeyExists(table, k) == table[k] # NoRow

\* INSERT ... VALUES ($1, $2, 'pending', $3, $3)
InsertedRow(now) ==
    [status |-> "pending", created_at |-> now, updated_at |-> now,
     fail_count |-> 0, last_error |-> "NULL"]

\* variant: a sent row is not recognised as finished
IsSent_Never(row) == FALSE

\* if status == "sent": return False
IsSent(row) == row.status = "sent"

\* variant: a row claimed exactly pending_timeout_seconds ago still counts as
\* active
IsActivePending_Inclusive(row, timeout) ==
    row.status = "pending" /\ row.updated_at # NULL /\ row.updated_at >= timeout

\* variant: the timeout is applied to failed rows too
IsActivePending_AnyStatus(row, timeout) ==
    row.updated_at # NULL /\ row.updated_at > timeout

\* if status == "pending" and updated_at is not None and updated_at > timeout
IsActivePending(row, timeout) ==
    row.status = "pending" /\ row.updated_at # NULL /\ row.updated_at > timeout

\* UPDATE ... SET status = 'pending', updated_at = $3
ReclaimedRow(row, now) == [row EXCEPT !.status = "pending", !.updated_at = now]

\* UPDATE ... SET status = 'sent', updated_at = $3 WHERE key; no row: no effect
MarkSentRow(row, now) ==
    IF row = NoRow THEN row
    ELSE [row EXCEPT !.status = "sent", !.updated_at = now]

\* UPDATE ... SET status = 'failed', last_error = $3, updated_at = $4 WHERE key
MarkFailedRow(row, error, now) ==
    IF row = NoRow THEN row
    ELSE [row EXCEPT !.status = "failed", !.last_error = error, !.updated_at = now]

\* forwards_cutoff = now - timedelta(days=30); DELETE ... WHERE created_at < $1
ForwardsCutoff(now) == now - ForwardsRetentionDays * SecondsPerDay
LogCutoff(now) == now - LogRetentionDays * SecondsPerDay
IsPruned(row, now) == row # NoRow /\ row.created_at < ForwardsCutoff(now)

\* what forwarded_claim returns for the fetched row, given the table at the
\* time of its write
ClaimResult(row, table, k, timeout) ==
    IF row = NoRow THEN (IF KeyExists(table, k) THEN "error" ELSE "true")
    ELSE IF IsSent(row) THEN "false"
    ELSE IF IsActivePending(row, timeout) THEN "false"
    ELSE "true"

\* the row forwarded_claim leaves
ClaimRow(row, table, k, now, timeout) ==
    IF row = NoRow THEN (IF KeyExists(table, k) THEN table[k] ELSE InsertedRow(now))
    ELSE IF IsSent(row) THEN row
    ELSE IF IsActivePending(row, timeout) THEN row
    ELSE ReclaimedRow(row, now)

----------------------------------------------------------------------------
\* BotRuntime (app/bot/runtime.py): titles and the resolver.

\* A title is a sequence of characters; a character is named by a string.
\* "SP" is the space, "TAB" the tabulator; "A" and "B" are the capitals of
\* "a" and "b".
IsSpace(c) == c \in {"SP", "TAB"}

\* str.lower() on one character
LowerChar(c) == IF c = "A" THEN "a" ELSE IF c = "B" THEN "b" ELSE c

RECURSIVE LStrip(_)
LStrip(s) == IF s # <<>> /\ IsSpace(Head(s)) THEN LStrip(Tail(s)) ELSE s

RECURSIVE RStrip(_)
RStrip(s) ==
    IF s # <<>> /\ IsSpace(s[Len(s)]) THEN RStrip(SubSeq(s, 1, Len(s) - 1)) ELSE s

\* str.strip()
Strip(s) == RStrip(LStrip(s))

\* str.lower()
Lower(s) == [i \in DOMAIN s |-> LowerChar(s[i])]

\* the two-character sequence that .replace() looks for, and its replacement
ReplaceOld == <<"U+0E31", "U+0091">>
ReplaceNew == <<"U+0E30", "U+0E15">>

\* str.replace(old, new): left to right, non-overlapping
RECURSIVE Replace(_)
Replace(s) ==
    IF s = <<>> THEN s
    ELSE IF Len(s) >= 2 /\ SubSeq(s, 1, 2) = ReplaceOld
         THEN ReplaceNew \o Replace(SubSeq(s, 3, Len(s)))
         ELSE <<Head(s)>> \o Replace(Tail(s))

\* re.sub(r"\s+", " ", v)
RECURSIVE CollapseSpaces(_)
CollapseSpaces(s) ==
    IF s = <<>> THEN s
    ELSE IF IsSpace(Head(s))
         THEN <<"SP">> \o CollapseSpaces(LStrip(Tail(s)))
         ELSE <<Head(s)>> \o CollapseSpaces(Tail(s))

\* BotRuntime._normalize_title
normalize_title(value) == CollapseSpaces(Replace(Lower(Strip(value))))

\* the dialogs the account may have: id and name
DialogPool ==
    { [id |-> 1, name |-> <<"a", "SP", "SP", "b">>],
      [id |-> 2, name |-> <<"SP", "A", "TAB", "B">>],
      [id |-> 3, name |-> <<"a", "b">>],
      [id |-> 4, name |-> <<"SP">>] }

\* values of TARGET_CHANNEL in the environment: unset, and a title
TargetChannelChoices == { <<>>, <<"A", "SP", "b", "SP">> }

NoChat == 0
NoClient == 0
NoTitle == <<"None">>
NoState == [enabled |-> FALSE, restart_requested_at |-> NULL, present |-> FALSE]

ChatIds == {d.id : d \in DialogPool}

\* the ids _resolve_target_channel_id appends to `matches`
Matches(dialogs, wanted_title) ==
    {d.id : d \in {x \in dialogs : /\ Strip(x.name) # <<>>
                                   /\ normalize_title(x.name) = normalize_title(wanted_title)}}

NotFoundError == "target not found in account dialogs"
AmbiguousError == "multiple dialogs found with title"

\* variant: with several matches the first one is taken
resolve_target_channel_id_FirstMatch(matches) ==
    IF matches = {} THEN [id |-> NoChat, error |-> NotFoundError]
    ELSE [id |-> CHOOSE m \in matches : \A o \in matches : m <= o, error |-> "None"]

\* what _resolve_target_channel_id returns, and the error it reports
resolve_target_channel_id(matches) ==
    IF matches = {} THEN [id |-> NoChat, error |-> NotFoundError]
    ELSE IF Cardinality(matches) > 1 THEN [id |-> NoChat, error |-> AmbiguousError]
    ELSE [id |-> CHOOSE m \in matches : TRUE, error |-> "None"]

----------------------------------------------------------------------------
\* BotRuntime: status reporting.

\* error texts
MissingTargetError == "Missing TARGET_CHANNEL in .env"
MissingApiError == "Missing TELEGRAM_API_ID / TELEGRAM_API_HASH in .env"
SessionNotFoundError == "Session file not found"
NotAuthorizedError == "Telegram session is not authorized"
CatchUpError == "Telethon catch_up failed"
HandlerError == "handler exception"
\* str(exc) of the exception a repository call raises without the database
DbError == "database error"

\* the exceptions an awaited Telethon call raises, by except clause
RaiseKinds == {"OSError", "RPCError", "Exception"}

RaiseError(kind) ==
    IF kind = "OSError" THEN "os error"
    ELSE IF kind = "RPCError" THEN "Telegram RPC error"
    ELSE "Telethon connect failed"

\* status events
Event(kind) == [kind |-> kind, chat_id |-> NoChat]
NewMessageEvent(chat_id) == [kind |-> "New message", chat_id |-> chat_id]

NoDelivery == [kind |-> "none", chat_id |-> NoChat]
NoScan == [done |-> FALSE, dialogs |-> {}]
\* nothing written in the tick so far
NoWrites == [connected |-> 0, error |-> 0, rows |-> 0]
\* no cleanup has returned yet
NoResult == [event_log |-> NULL, forwarded_messages |-> NULL]
\* the channels that have a checkpoint
CheckpointChats == {1, 3}
\* no row of channel_checkpoint for the channel
NoCheckpoint == [last_message_id |-> NULL, last_message_date |-> NULL, updated_at |-> NULL]
\* checkpoint_upsert has not been called
NoCall == [source_chat_id |-> NoChat, last_message_id |-> NULL]
\* no datetime
NoMoment == <<>>


----------------------------------------------------------------------------
\* Initial state: empty tables, every caller idle, the runtime constructed.

InitLedger ==
    /\ clock = 0
    /\ rows = [k \in Keys |-> NoRow]
    /\ lock = [k \in Keys |-> NoWorker]
    /\ event_log = {}
    /\ pc = [w \in Workers |-> "idle"]
    /\ key = [w \in Workers |-> 1]
    /\ tnow = [w \in Workers |-> 0]
    /\ retry = [w \in Workers |-> 1]
    /\ seen = [w \in Workers |-> NoRow]
    /\ result = [w \in Workers |-> "none"]
    /\ forwards = [k \in Keys |-> 0]
    /\ takeover = [k \in Keys |-> FALSE]
    /\ purged = [k \in Keys |-> FALSE]
    /\ sent_applied = [k \in Keys |-> FALSE]

\* BotRuntime.__init__; no bot_state row, an empty app_status
InitRuntime ==
    /\ bot_state = NoState
    /\ stop_event = FALSE
    /\ status_error = "NULL"
    /\ status_event = Event("none")
    /\ connected_cache = "None"
    /\ last_error_cache = "None"
    /\ run_loop = "init"
    /\ resume = "none"
    /\ ok = "none"
    /\ branch = "none"
    /\ scan = NoScan
    /\ last_restart_seen = NULL
    /\ client = NoClient
    /\ target_chat_id = NoChat
    /\ target_title = NoTitle
    /\ handlers_installed = FALSE
    /\ clients_created = 0
    /\ conn = [c \in 1..MaxClients |-> FALSE]
    /\ handlers = [c \in 1..MaxClients |-> 0]
    /\ inflight = NoDelivery
    /\ relay_target = NoChat
    /\ prev_resolution = <<NoChat, NoTitle>>
    /\ resolved_written = FALSE
    /\ tick_writes = NoWrites
    /\ prev_report = <<"None", "None">>

\* no title under study
InitTitles ==
    /\ phase = "input"
    /\ title_in = <<>>
    /\ title_var = <<>>
    /\ relation = "none"
    /\ norm_in = <<>>
    /\ norm_var = <<>>
    /\ norm_twice = <<>>

\* on_startup: the pool is created
InitHost ==
    /\ db_up = TRUE
    /\ pool_closed = FALSE
    /\ handler_raised = FALSE

\* on_startup: asyncio.create_task(_cleanup_loop(repo))
InitCleaner ==
    /\ cleaner = "sleep"
    /\ cleanup_result = NoResult
    /\ cleanup_fresh = FALSE
    /\ cleanup_calls = 0

\* the table channel_checkpoint is empty
InitStore ==
    /\ channel_checkpoint = [c \in CheckpointChats |-> NoCheckpoint]
    /\ checkpoint_call = NoCall

\* _cleanup_loop has not read the time
InitSchedule ==
    /\ now_utc = NoMoment
    /\ next_run = NoMoment
    /\ sleep_seconds = NULL
    /\ schedule = "now"

Init ==
    /\ InitLedger
    /\ InitRuntime
    /\ InitTitles
    /\ InitHost
    /\ InitCleaner
    /\ InitStore
    /\ InitSchedule
    /\ backend_ok = FALSE
    /\ TARGET_CHANNEL = <<>>
    /\ api_configured = FALSE
    /\ session_exists = FALSE
    /\ status_connected = FALSE

----------------------------------------------------------------------------
\* Time.

\* one second passes
Tick ==
    /\ clock % SecondsPerDay < MaxTicks
    /\ clock' = clock + 1
    /\ UNCHANGED <<ledgerVars, workerVars>>

\* d whole days pass
SleepDays(d) ==
    /\ clock \div SecondsPerDay + d <= MaxDays
    /\ clock' = clock + d * SecondsPerDay
    /\ UNCHANGED <<ledgerVars, workerVars>>

----------------------------------------------------------------------------
\* forwarded_claim, in the three steps its awaits separate.

\* now = datetime.now(timezone.utc); the call then waits for a connection
ClaimBegin(w) ==
    \E k \in Keys, r \in RetryChoices :
        /\ pc[w] = "idle"
        /\ pc' = [pc EXCEPT ![w] = "select"]
        /\ key' = [key EXCEPT ![w] = k]
        /\ tnow' = [tnow EXCEPT ![w] = clock]
        /\ retry' = [retry EXCEPT ![w] = r]
        /\ UNCHANGED <<clock, ledgerVars, seen, result>>

\* SELECT status, updated_at ... FOR UPDATE: waits while another transaction
\* holds the row; locks the row when there is one
ClaimSelect(w) ==
    /\ pc[w] = "select"
    /\ lock[key[w]] = NoWorker
    /\ seen' = [seen EXCEPT ![w] = rows[key[w]]]
    /\ lock' = [lock EXCEPT ![key[w]] = IF rows[key[w]] = NoRow THEN NoWorker ELSE w]
    /\ pc' = [pc EXCEPT ![w] = "decide"]
    /\ UNCHANGED <<clock, rows, event_log, key, tnow, retry, result>>

\* the branch on the fetched row, the INSERT or UPDATE, and the commit
ClaimFinish(w) ==
    LET k == key[w]
        timeout == Timeout(tnow[w], retry[w])
    IN  /\ pc[w] = "decide"
        /\ rows' = [rows EXCEPT ![k] = ClaimRow(seen[w], rows, k, tnow[w], timeout)]
        /\ lock' = [lock EXCEPT ![k] = IF lock[k] = w THEN NoWorker ELSE lock[k]]
        /\ result' = [result EXCEPT ![w] = ClaimResult(seen[w], rows, k, timeout)]
        /\ pc' = [pc EXCEPT ![w] = "returned"]
        /\ UNCHANGED <<clock, event_log, key, tnow, retry, seen>>

\* the caller has the return value (or the exception) and goes on
Return(w) ==
    /\ pc[w] = "returned"
    /\ pc' = [pc EXCEPT ![w] = "idle"]
    /\ seen' = [seen EXCEPT ![w] = NoRow]
    /\ result' = [result EXCEPT ![w] = "none"]
    /\ key' = [key EXCEPT ![w] = 1]
    /\ tnow' = [tnow EXCEPT ![w] = 0]
    /\ retry' = [retry EXCEPT ![w] = 1]
    /\ UNCHANGED <<clock, ledgerVars>>

----------------------------------------------------------------------------
\* forwarded_mark_sent, forwarded_mark_failed: one UPDATE each, which waits
\* while a claim's transaction holds the row.

MarkSent(k) ==
    /\ lock[k] = NoWorker
    /\ rows' = [rows EXCEPT ![k] = MarkSentRow(rows[k], clock)]
    /\ UNCHANGED <<clock, lock, event_log>>

MarkFailed(k, e) ==
    /\ lock[k] = NoWorker
    /\ rows' = [rows EXCEPT ![k] = MarkFailedRow(rows[k], e, clock)]
    /\ UNCHANGED <<clock, lock, event_log>>

\* any caller, any key, any time
CallMarkSent(k) == MarkSent(k) /\ UNCHANGED workerVars

CallMarkFailed(k, e) == MarkFailed(k, e) /\ UNCHANGED workerVars

----------------------------------------------------------------------------
\* Repo.cleanup: both DELETEs; a DELETE waits for the rows a claim holds.

Cleanup ==
    /\ \A k \in Keys : IsPruned(rows[k], clock) => lock[k] = NoWorker
    /\ event_log' = {e \in event_log : ~(e.created_at < LogCutoff(clock))}
    /\ rows' = [k \in Keys |-> IF IsPruned(rows[k], clock) THEN NoRow ELSE rows[k]]
    /\ UNCHANGED <<clock, lock, workerVars>>

----------------------------------------------------------------------------
\* The ledger under arbitrary calls: any caller may claim, mark sent or mark
\* failed any key at any time, cleanup may run at any time.

LedgerNext ==
    \/ Tick /\ UNCHANGED <<ghostVars, runtimeVars, auxVars>>
    \/ SleepDays(ForwardsRetentionDays) /\ UNCHANGED <<ghostVars, runtimeVars, auxVars>>
    \/ \E w \in Workers : ClaimBegin(w) /\ UNCHANGED <<ghostVars, runtimeVars, auxVars>>
    \/ \E w \in Workers : ClaimSelect(w) /\ UNCHANGED <<ghostVars, runtimeVars, auxVars>>
    \/ \E w \in Workers : ClaimFinish(w) /\ UNCHANGED <<ghostVars, runtimeVars, auxVars>>
    \/ \E w \in Workers : Return(w) /\ UNCHANGED <<ghostVars, runtimeVars, auxVars>>
    \/ \E k \in Keys :
          /\ CallMarkSent(k)
          /\ sent_applied' = [sent_applied EXCEPT ![k] = @ \/ rows[k] # NoRow]
          /\ UNCHANGED <<forwards, takeover, purged, runtimeVars, auxVars>>
    \/ \E k \in Keys, e \in Errors : CallMarkFailed(k, e) /\ UNCHANGED <<ghostVars, runtimeVars, auxVars>>
    \/ Cleanup /\ UNCHANGED <<ghostVars, runtimeVars, auxVars>>

SpecLedger == Init /\ [][LedgerNext]_vars

\* Concurrent forwarded_claim calls alone, as time passes.
ClaimsNext ==
    \/ Tick /\ UNCHANGED <<ghostVars, runtimeVars, auxVars>>
    \/ \E w \in Workers : ClaimBegin(w) /\ UNCHANGED <<ghostVars, runtimeVars, auxVars>>
    \/ \E w \in Workers : ClaimSelect(w) /\ UNCHANGED <<ghostVars, runtimeVars, auxVars>>
    \/ \E w \in Workers : ClaimFinish(w) /\ UNCHANGED <<ghostVars, runtimeVars, auxVars>>
    \/ \E w \in Workers : Return(w) /\ UNCHANGED <<ghostVars, runtimeVars, auxVars>>

SpecClaims == Init /\ [][ClaimsNext]_vars

----------------------------------------------------------------------------
\* Workers that follow the protocol of the ledger: claim, forward only when
\* the claim returned true, then mark sent or mark failed.

\* a worker that was granted the claim of k and has not yet marked it
Holding(w, k) ==
    /\ key[w] = k
    /\ \/ pc[w] = "returned" /\ result[w] = "true"
       \/ pc[w] \in {"mark_sent", "mark_failed"}

\* the claim returned false or raised: skip the message
Skip(w) ==
    /\ result[w] # "true"
    /\ Return(w)

\* the relay is emitted
ForwardOk(w) ==
    /\ pc[w] = "returned"
    /\ result[w] = "true"
    /\ forwards[key[w]] < MaxForwards
    /\ forwards' = [forwards EXCEPT ![key[w]] = @ + 1]
    /\ pc' = [pc EXCEPT ![w] = "mark_sent"]
    /\ UNCHANGED <<clock, ledgerVars, key, tnow, retry, seen, result>>

\* the relay fails
ForwardFails(w) ==
    /\ pc[w] = "returned"
    /\ result[w] = "true"
    /\ pc' = [pc EXCEPT ![w] = "mark_failed"]
    /\ UNCHANGED <<clock, ledgerVars, key, tnow, retry, seen, result, forwards>>

WorkerDone(w) ==
    /\ pc' = [pc EXCEPT ![w] = "idle"]
    /\ seen' = [seen EXCEPT ![w] = NoRow]
    /\ result' = [result EXCEPT ![w] = "none"]
    /\ key' = [key EXCEPT ![w] = 1]
    /\ tnow' = [tnow EXCEPT ![w] = 0]
    /\ retry' = [retry EXCEPT ![w] = 1]

WorkerMarkSent(w) ==
    /\ pc[w] = "mark_sent"
    /\ MarkSent(key[w])
    /\ WorkerDone(w)

WorkerMarkFailed(w) ==
    /\ pc[w] = "mark_failed"
    /\ \E e \in Errors : MarkFailed(key[w], e)
    /\ WorkerDone(w)

\* a claim granted while another worker still holds one
Takeover(w) ==
    /\ result'[w] = "true"
    /\ \E o \in Workers \ {w} : Holding(o, key[w])

ProtocolNext ==
    \/ Tick /\ UNCHANGED <<ghostVars, runtimeVars, auxVars>>
    \/ SleepDays(ForwardsRetentionDays) /\ UNCHANGED <<ghostVars, runtimeVars, auxVars>>
    \/ \E w \in Workers : ClaimBegin(w) /\ UNCHANGED <<ghostVars, runtimeVars, auxVars>>
    \/ \E w \in Workers : ClaimSelect(w) /\ UNCHANGED <<ghostVars, runtimeVars, auxVars>>
    \/ \E w \in Workers :
          /\ ClaimFinish(w)
          /\ takeover' = [takeover EXCEPT ![key[w]] = @ \/ Takeover(w)]
          /\ UNCHANGED <<forwards, purged, sent_applied, runtimeVars, auxVars>>
    \/ \E w \in Workers : Skip(w) /\ UNCHANGED <<ghostVars, runtimeVars, auxVars>>
    \/ \E w \in Workers : ForwardOk(w) /\ UNCHANGED <<takeover, purged, sent_applied, runtimeVars, auxVars>>
    \/ \E w \in Workers : ForwardFails(w) /\ UNCHANGED <<takeover, purged, sent_applied, runtimeVars, auxVars>>
    \/ \E w \in Workers : WorkerMarkSent(w) /\ UNCHANGED <<ghostVars, runtimeVars, auxVars>>
    \/ \E w \in Workers : WorkerMarkFailed(w) /\ UNCHANGED <<ghostVars, runtimeVars, auxVars>>
    \/ /\ Cleanup
       /\ purged' = [k \in Keys |-> purged[k] \/ IsPruned(rows[k], clock)]
       /\ UNCHANGED <<forwards, takeover, sent_applied, runtimeVars, auxVars>>

SpecProtocol == Init /\ [][ProtocolNext]_vars

----------------------------------------------------------------------------
\* BotRuntime: the reporting functions.

\* _connected_cache: None, True, False
Cache(connected) == IF connected THEN "True" ELSE "False"

\* the caches and the durable rows that the reporting functions touch
St ==
    [cc |-> connected_cache, ec |-> last_error_cache,
     sc |-> status_connected, se |-> status_error, log |-> event_log]

\* Repo.app_status_set_connected: connected = $1, last_error = NULL
app_status_set_connected(S, connected) == [S EXCEPT !.sc = connected, !.se = "NULL"]

\* Repo.app_status_set_error: last_error = $1
app_status_set_error(S, error) == [S EXCEPT !.se = error]

\* Repo.event_error_add
event_error_add(S, message) ==
    [S EXCEPT !.log = @ \cup {[message |-> message, created_at |-> clock]}]

\* variant: a cache that was never assigned counts as False
set_connected_NoneIsFalse(S, connected) ==
    IF S.cc = Cache(connected) \/ (S.cc = "None" /\ ~connected) THEN S
    ELSE app_status_set_connected([S EXCEPT !.cc = Cache(connected)], connected)

\* BotRuntime._set_connected
set_connected(S, connected) ==
    IF S.cc = Cache(connected) THEN S
    ELSE app_status_set_connected([S EXCEPT !.cc = Cache(connected)], connected)

\* BotRuntime._set_error
set_error(S, error) ==
    IF error = S.ec THEN S
    ELSE IF error = "None" THEN [S EXCEPT !.ec = error]
    ELSE event_error_add(app_status_set_error([S EXCEPT !.ec = error], error), error)

\* _set_connected(False) of the finally block: the cache is assigned before
\* the write, and without the database the write raises
Finally(S) ==
    IF db_up THEN set_connected(S, FALSE) ELSE [S EXCEPT !.cc = "False"]

\* the step leaves the caches and rows as S
Put(S) ==
    /\ Cardinality(S.log) <= MaxLogRows
    /\ connected_cache' = S.cc
    /\ last_error_cache' = S.ec
    /\ status_connected' = S.sc
    /\ status_error' = S.se
    /\ event_log' = S.log

----------------------------------------------------------------------------
\* BotRuntime.is_target_chat, should_monitor_chat.

is_target_chat(chat_id) ==
    IF chat_id = NoChat \/ target_chat_id = NoChat THEN FALSE
    ELSE chat_id = target_chat_id

\* variant: the target channel is monitored like any other chat
should_monitor_chat_IgnoresTarget(chat_id) == chat_id # NoChat

should_monitor_chat(chat_id) ==
    IF chat_id = NoChat THEN FALSE
    ELSE IF is_target_chat(chat_id) THEN FALSE
    ELSE TRUE

----------------------------------------------------------------------------
\* BotRuntime._disconnect_client and what follows it in each caller.

\* the code after `await self._disconnect_client()`; cont names the caller:
\*   "idle"         restart and disabled branches of _run_loop
\*   "unauthorized" the unauthorized branch of _ensure_connected
\*   "failed"       the other failing branches of _ensure_connected
\*   "final"        the finally block of _run_loop, the loop left on stop
\*   "raised"       the finally block of _run_loop, an exception on its way out
\* In the finally block a write that raises ends the task: the stop event is
\* written only if every write before it went through.
\* variant: the restart and disabled branches do not report disconnected
AfterDisconnect_IdleUnreported(S, ev, cont) ==
    /\ Put(IF cont \in {"final", "raised"} THEN Finally(S)
           ELSE IF cont = "unauthorized" THEN set_connected(S, FALSE) ELSE S)
    /\ status_event' = IF cont \in {"final", "raised"} /\ db_up
                       THEN Event("Bot runtime stopped") ELSE ev
    /\ run_loop' = IF cont = "final" /\ db_up THEN "stopped"
                   ELSE IF cont \in {"final", "raised"} THEN "crashed" ELSE "sleep"
    /\ ok' = IF cont \in {"unauthorized", "failed"} THEN "False" ELSE "none"
    /\ resume' = "none"

AfterDisconnect(S, ev, cont) ==
    /\ Put(IF cont \in {"final", "raised"} THEN Finally(S)
           ELSE IF cont \in {"idle", "unauthorized"} THEN set_connected(S, FALSE) ELSE S)
    /\ status_event' = IF cont \in {"final", "raised"} /\ db_up
                       THEN Event("Bot runtime stopped") ELSE ev
    /\ run_loop' = IF cont = "final" /\ db_up THEN "stopped"
                   ELSE IF cont \in {"final", "raised"} THEN "crashed" ELSE "sleep"
    /\ ok' = IF cont \in {"unauthorized", "failed"} THEN "False" ELSE "none"
    /\ resume' = "none"

\* variant: the guard flag of the handlers survives the disconnect
disconnect_client_KeepsGuard(S, ev, cont) ==
    /\ target_chat_id' = NoChat
    /\ target_title' = NoTitle
    /\ UNCHANGED handlers_installed
    /\ IF client # NoClient /\ conn[client]
       THEN /\ Put(S)
            /\ status_event' = ev
            /\ run_loop' = "disconnect"
            /\ resume' = cont
            /\ UNCHANGED <<client, ok>>
       ELSE /\ client' = NoClient
            /\ AfterDisconnect(S, ev, cont)

\* variant: the resolved target id survives the disconnect
disconnect_client_KeepsTarget(S, ev, cont) ==
    /\ UNCHANGED <<target_chat_id, target_title>>
    /\ handlers_installed' = FALSE
    /\ IF client # NoClient /\ conn[client]
       THEN /\ Put(S)
            /\ status_event' = ev
            /\ run_loop' = "disconnect"
            /\ resume' = cont
            /\ UNCHANGED <<client, ok>>
       ELSE /\ client' = NoClient
            /\ AfterDisconnect(S, ev, cont)

\* _disconnect_client up to its await: the caches are reset first; without a
\* connected client the function returns at once and the caller goes on
disconnect_client(S, ev, cont) ==
    /\ target_chat_id' = NoChat
    /\ target_title' = NoTitle
    /\ handlers_installed' = FALSE
    /\ IF client # NoClient /\ conn[client]
       THEN /\ Put(S)
            /\ status_event' = ev
            /\ run_loop' = "disconnect"
            /\ resume' = cont
            /\ UNCHANGED <<client, ok>>
       ELSE /\ client' = NoClient
            /\ AfterDisconnect(S, ev, cont)

\* await asyncio.wait_for(self._client.disconnect(), timeout=10) returns, times
\* out or raises; finally: self._client = None
DisconnectWait ==
    /\ run_loop = "disconnect"
    /\ \E closed \in BOOLEAN :
          conn' = [conn EXCEPT ![client] = IF closed THEN FALSE ELSE @]
    /\ client' = NoClient
    /\ AfterDisconnect(St, status_event, resume)
    /\ UNCHANGED <<forwardingVars, auxVars, branch, envVars, controlVars, last_restart_seen,
                   target_chat_id, target_title, handlers_installed, scan,
                   clients_created, handlers, inflight>>

----------------------------------------------------------------------------
\* BotRuntime._run_loop and _ensure_connected, in the steps their awaits
\* separate.

\* await self._repo.app_status_set_event("Bot runtime started")
Start ==
    /\ run_loop = "init"
    /\ run_loop' = "poll"
    /\ status_event' = Event("Bot runtime started")
    /\ UNCHANGED <<forwardingVars, auxVars, branch, event_log, envVars, controlVars, status_connected,
                   status_error, cacheVars, resume, ok, scan, last_restart_seen, client,
                   target_chat_id, target_title, handlers_installed, clientVars, inflight>>

\* Repo.bot_state_get: a missing row is inserted as (false, NULL)
bot_state_get ==
    IF bot_state.present THEN bot_state ELSE [NoState EXCEPT !.present = TRUE]

\* variant: a set restart_requested_at asks for a restart on every tick
RestartRequested_WheneverSet(state) == state.restart_requested_at # NULL

\* if state.restart_requested_at and state.restart_requested_at != last_restart_seen
RestartRequested(state) ==
    state.restart_requested_at # NULL /\ state.restart_requested_at # last_restart_seen

\* while not self._stop_event.is_set(): left; the finally block
LoopExit ==
    /\ run_loop = "poll"
    /\ stop_event
    /\ disconnect_client(St, status_event, "final")
    /\ branch' = "final"
    /\ UNCHANGED <<forwardingVars, auxVars, envVars, controlVars, scan, last_restart_seen,
                   clientVars, inflight>>

\* variant: the request that was acted on is not remembered
PollRestart_ForgetsRequest ==
    /\ run_loop = "poll"
    /\ ~stop_event
    /\ db_up
    /\ RestartRequested(bot_state_get)
    /\ bot_state' = bot_state_get
    /\ UNCHANGED last_restart_seen
    /\ disconnect_client(St, Event("Soft restart requested"), "idle")
    /\ branch' = "restart"
    /\ UNCHANGED <<forwardingVars, auxVars, envVars, stop_event, scan, clientVars, inflight>>

\* the soft restart branch
PollRestart ==
    /\ run_loop = "poll"
    /\ ~stop_event
    /\ db_up
    /\ RestartRequested(bot_state_get)
    /\ bot_state' = bot_state_get
    /\ last_restart_seen' = bot_state_get.restart_requested_at
    /\ disconnect_client(St, Event("Soft restart requested"), "idle")
    /\ branch' = "restart"
    /\ UNCHANGED <<forwardingVars, auxVars, envVars, stop_event, scan, clientVars, inflight>>

\* the disabled branch
PollDisabled ==
    /\ run_loop = "poll"
    /\ ~stop_event
    /\ db_up
    /\ ~RestartRequested(bot_state_get)
    /\ ~bot_state_get.enabled
    /\ bot_state' = bot_state_get
    /\ disconnect_client(St, status_event, "idle")
    /\ branch' = "disabled"
    /\ UNCHANGED <<forwardingVars, auxVars, envVars, stop_event, scan, last_restart_seen,
                   clientVars, inflight>>

\* the enabled branch is taken
Enabled ==
    /\ run_loop = "poll"
    /\ ~stop_event
    /\ db_up
    /\ ~RestartRequested(bot_state_get)
    /\ bot_state_get.enabled

\* the error of the first configuration check that fails, "None" when all pass
ConfigError ==
    IF Strip(TARGET_CHANNEL) = <<>> THEN MissingTargetError
    ELSE IF ~api_configured THEN MissingApiError
    ELSE IF ~session_exists THEN SessionNotFoundError
    ELSE "None"

\* _ensure_connected returns False from a configuration check
EnsureConfigError ==
    /\ Enabled
    /\ ConfigError # "None"
    /\ Put(set_connected(set_error(St, ConfigError), FALSE))
    /\ run_loop' = "sleep"
    /\ ok' = "False"
    /\ branch' = "ensure"
    /\ UNCHANGED <<forwardingVars, auxVars, envVars, controlVars, status_event, resume, scan,
                   last_restart_seen, client, target_chat_id, target_title,
                   handlers_installed, clientVars, inflight>>

\* the checks pass; if self._client is None a TelegramClient is created
EnsureClient ==
    /\ Enabled
    /\ ConfigError = "None"
    /\ IF client = NoClient
       THEN /\ clients_created < MaxClients
            /\ clients_created' = clients_created + 1
            /\ client' = clients_created + 1
            /\ status_event' = Event("Telethon client created")
       ELSE UNCHANGED <<clients_created, client, status_event>>
    /\ run_loop' = "connect"
    /\ branch' = "ensure"
    /\ UNCHANGED <<forwardingVars, auxVars, event_log, envVars, controlVars, status_connected,
                   status_error, cacheVars, resume, ok, scan, last_restart_seen,
                   target_chat_id, target_title, handlers_installed, conn, handlers,
                   inflight>>

\* one of the except clauses of _ensure_connected
Raise(kind) ==
    /\ disconnect_client(set_connected(set_error(St, RaiseError(kind)), FALSE),
                         status_event, "failed")
    /\ UNCHANGED <<forwardingVars, auxVars, branch, envVars, controlVars, scan, last_restart_seen,
                   clientVars, inflight>>

\* if not self._client.is_connected(): await self._client.connect()
Connect ==
    /\ run_loop = "connect"
    /\ conn' = [conn EXCEPT ![client] = TRUE]
    /\ run_loop' = "authorize"
    /\ UNCHANGED <<forwardingVars, auxVars, branch, event_log, envVars, controlVars, statusVars, cacheVars,
                   resume, ok, scan, last_restart_seen, client, target_chat_id,
                   target_title, handlers_installed, clients_created, handlers, inflight>>

ConnectRaises ==
    /\ run_loop = "connect"
    /\ ~conn[client]
    /\ \E kind \in RaiseKinds : Raise(kind)

\* await self._client.is_user_authorized() is true
Authorize ==
    /\ run_loop = "authorize"
    /\ run_loop' = "catch_up"
    /\ UNCHANGED <<forwardingVars, auxVars, branch, event_log, envVars, controlVars, statusVars, cacheVars,
                   resume, ok, scan, last_restart_seen, client, target_chat_id,
                   target_title, handlers_installed, clientVars, inflight>>

\* ... is false
AuthorizeRefused ==
    /\ run_loop = "authorize"
    /\ disconnect_client(set_error(St, NotAuthorizedError), status_event, "unauthorized")
    /\ UNCHANGED <<forwardingVars, auxVars, branch, envVars, controlVars, scan, last_restart_seen,
                   clientVars, inflight>>

\* ... raises
AuthorizeRaises ==
    /\ run_loop = "authorize"
    /\ \E kind \in RaiseKinds : Raise(kind)

\* await self._client.catch_up(); a failure is written to the status and the
\* connection attempt goes on
CatchUpStep(failed) ==
    /\ run_loop = "catch_up"
    /\ Put(IF failed
           THEN event_error_add(app_status_set_error(St, CatchUpError), CatchUpError)
           ELSE St)
    /\ run_loop' = "resolve"
    /\ UNCHANGED <<forwardingVars, auxVars, branch, envVars, controlVars, status_event, resume, ok, scan,
                   last_restart_seen, client, target_chat_id, target_title,
                   handlers_installed, clientVars, inflight>>

CatchUp == \E failed \in BOOLEAN : CatchUpStep(failed)

\* the event left by the tail of a successful _ensure_connected
SuccessEvent(resolved, title) ==
    IF ~handlers_installed THEN Event("Live monitoring enabled")
    ELSE IF target_chat_id # resolved \/ target_title # title
         THEN Event("Target channel resolved")
         ELSE status_event

\* resolved = await self._resolve_target_channel_id(target_title) over the
\* dialogs the account has at that time, and the rest of _ensure_connected
Resolve ==
    /\ run_loop = "resolve"
    /\ \E dialogs \in SUBSET DialogPool :
          LET title == Strip(TARGET_CHANNEL)
              r == resolve_target_channel_id(Matches(dialogs, title))
          IN  /\ scan' = [done |-> TRUE, dialogs |-> dialogs]
              /\ IF r.id = NoChat
                 THEN /\ disconnect_client(set_connected(set_error(St, r.error), FALSE),
                                           status_event, "failed")
                      /\ UNCHANGED handlers
                 ELSE /\ target_chat_id' = r.id
                      /\ target_title' = title
                      /\ status_event' = SuccessEvent(r.id, title)
                      /\ handlers' = IF handlers_installed THEN handlers
                                     ELSE [handlers EXCEPT ![client] = @ + 1]
                      /\ handlers_installed' = TRUE
                      /\ Put(set_error(set_connected(St, TRUE), "None"))
                      /\ run_loop' = "sleep"
                      /\ ok' = "True"
                      /\ UNCHANGED <<resume, client>>
    /\ UNCHANGED <<forwardingVars, auxVars, branch, envVars, controlVars, last_restart_seen,
                   clients_created, conn, inflight>>

\* iter_dialogs raises
ResolveRaises ==
    /\ run_loop = "resolve"
    /\ \E kind \in RaiseKinds : Raise(kind)

\* await asyncio.sleep(...); the tick is over
Sleep ==
    /\ run_loop = "sleep"
    /\ run_loop' = "poll"
    /\ ok' = "none"
    /\ scan' = NoScan
    /\ branch' = "none"
    /\ UNCHANGED <<forwardingVars, auxVars, event_log, envVars, controlVars, statusVars, cacheVars,
                   resume, last_restart_seen, client, target_chat_id, target_title,
                   handlers_installed, clientVars, inflight>>

----------------------------------------------------------------------------
\* The admin routes, the process and the network.

\* Repo.bot_state_set_enabled (routes /bot/enable, /bot/disable)
bot_state_set_enabled(enabled) ==
    /\ run_loop = "poll"
    /\ db_up
    /\ bot_state' = [enabled |-> enabled,
                     restart_requested_at |-> bot_state.restart_requested_at,
                     present |-> TRUE]
    /\ bot_state' # bot_state
    /\ UNCHANGED <<forwardingVars, auxVars, event_log, envVars, stop_event, statusVars, cacheVars,
                   supVars, clientVars, inflight>>

\* Repo.bot_state_request_restart (route /bot/restart); successive requests
\* carry increasing timestamps 1, 2, ...
bot_state_request_restart ==
    /\ run_loop = "poll"
    /\ db_up
    /\ bot_state.restart_requested_at < MaxRestarts
    /\ bot_state' = [enabled |-> IF bot_state.present THEN bot_state.enabled ELSE TRUE,
                     restart_requested_at |->
                         IF bot_state.restart_requested_at = NULL THEN 1
                         ELSE bot_state.restart_requested_at + 1,
                     present |-> TRUE]
    /\ UNCHANGED <<forwardingVars, auxVars, event_log, envVars, stop_event, statusVars, cacheVars,
                   supVars, clientVars, inflight>>

\* BotRuntime.stop: self._stop_event.set()
Stop ==
    /\ run_loop = "poll"
    /\ ~stop_event
    /\ stop_event' = TRUE
    /\ UNCHANGED <<forwardingVars, auxVars, event_log, envVars, bot_state, statusVars, cacheVars,
                   supVars, clientVars, inflight>>

\* the connection of a client drops
ConnectionLost(c) ==
    /\ conn[c]
    /\ conn' = [conn EXCEPT ![c] = FALSE]
    /\ UNCHANGED <<forwardingVars, auxVars, event_log, envVars, controlVars, statusVars, cacheVars,
                   supVars, clients_created, handlers, inflight>>

----------------------------------------------------------------------------
\* The live event dispatcher: _on_new_message, registered by
\* _install_live_handlers on a client and called by it for every new message
\* while that client is connected.

\* the event passes the filters: the handler is about to await
\* app_status_set_event; otherwise it has returned
OnNewMessage(c, chat_id, is_group_or_channel) ==
    /\ conn[c]
    /\ handlers[c] > 0
    /\ inflight = NoDelivery
    /\ inflight' = IF is_group_or_channel /\ should_monitor_chat(chat_id)
                   THEN NewMessageEvent(chat_id)
                   ELSE inflight
    /\ UNCHANGED <<forwardingVars, auxVars, event_log, envVars, controlVars, statusVars, cacheVars,
                   supVars, clientVars>>

\* the handler body raises: the except clause is about to report it
OnNewMessageRaises(c) ==
    /\ conn[c]
    /\ handlers[c] > 0
    /\ inflight = NoDelivery
    /\ inflight' = Event("error")
    /\ UNCHANGED <<forwardingVars, auxVars, event_log, envVars, controlVars, statusVars, cacheVars,
                   supVars, clientVars>>

\* str(exc) in the except clause of the handler
HandlerErrorText(delivery) == IF delivery.kind = "db error" THEN DbError ELSE HandlerError

\* the awaited write of the handler.  The status event: without the database
\* it raises and the except clause takes over.  The report of the except
\* clause: without the database it raises and the exception leaves the
\* handler.
HandlerWrite ==
    /\ inflight # NoDelivery
    /\ IF inflight.kind \in {"error", "db error"}
       THEN /\ inflight' = NoDelivery
            /\ IF db_up
               THEN /\ Put(event_error_add(app_status_set_error(St, HandlerErrorText(inflight)),
                                           HandlerErrorText(inflight)))
                    /\ UNCHANGED handler_raised
               ELSE /\ handler_raised' = TRUE
                    /\ UNCHANGED <<event_log, status_connected, status_error, cacheVars>>
            /\ UNCHANGED status_event
       ELSE /\ inflight' = IF db_up THEN NoDelivery ELSE Event("db error")
            /\ status_event' = IF db_up THEN inflight ELSE status_event
            /\ UNCHANGED <<event_log, status_connected, status_error, cacheVars, handler_raised>>
    /\ UNCHANGED <<forwardingVars, titleVars, sideVars, cleanerVars, db_up, pool_closed, envVars,
                   controlVars, supVars, clientVars>>

----------------------------------------------------------------------------
\* The runtime: supervisor, dispatcher, admin routes and network.

\* the chats of the events delivered: none, a channel that can be the target,
\* a chat that cannot
EventChats == {NoChat, 1, 3}

RuntimeInit ==
    /\ InitLedger
    /\ InitRuntime
    /\ InitTitles
    /\ InitHost
    /\ InitCleaner
    /\ InitStore
    /\ InitSchedule
    /\ backend_ok = FALSE
    /\ TARGET_CHANNEL \in TargetChannelChoices
    /\ api_configured \in BOOLEAN
    /\ session_exists \in BOOLEAN
    /\ status_connected \in BOOLEAN

RuntimeNext ==
    \/ Start /\ UNCHANGED allGhosts
    \/ LoopExit /\ UNCHANGED allGhosts
    \/ PollRestart /\ UNCHANGED allGhosts
    \/ PollDisabled /\ UNCHANGED allGhosts
    \/ EnsureConfigError /\ UNCHANGED allGhosts
    \/ EnsureClient /\ UNCHANGED allGhosts
    \/ Connect /\ UNCHANGED allGhosts
    \/ ConnectRaises /\ UNCHANGED allGhosts
    \/ Authorize /\ UNCHANGED allGhosts
    \/ AuthorizeRefused /\ UNCHANGED allGhosts
    \/ AuthorizeRaises /\ UNCHANGED allGhosts
    \/ CatchUp /\ UNCHANGED allGhosts
    \/ Resolve /\ relay_target' = target_chat_id' /\ UNCHANGED <<ghostVars, tickVars>>
    \/ ResolveRaises /\ UNCHANGED allGhosts
    \/ /\ DisconnectWait
       /\ relay_target' = IF conn'[client] THEN relay_target ELSE NoChat
       /\ UNCHANGED <<ghostVars, tickVars>>
    \/ Sleep /\ UNCHANGED allGhosts
    \/ \E enabled \in BOOLEAN : bot_state_set_enabled(enabled) /\ UNCHANGED allGhosts
    \/ bot_state_request_restart /\ UNCHANGED allGhosts
    \/ Stop /\ UNCHANGED allGhosts
    \/ \E c \in 1..clients_created : ConnectionLost(c) /\ UNCHANGED allGhosts
    \/ \E c \in 1..clients_created, chat_id \in EventChats, g \in BOOLEAN :
          OnNewMessage(c, chat_id, g) /\ UNCHANGED allGhosts
    \/ \E c \in 1..clients_created : OnNewMessageRaises(c) /\ UNCHANGED allGhosts
    \/ HandlerWrite /\ UNCHANGED allGhosts

SpecRuntime == RuntimeInit /\ [][RuntimeNext]_vars

----------------------------------------------------------------------------
\* Retention: Repo.cleanup, the daily _cleanup_loop and the cleanup control
\* of the admin panel.

\* the command status asyncpg returns for a DELETE of n rows
DeleteStatus(n) == <<"DELETE", n>>

\* _count: int(cmd.split()[-1])
count(cmd) == cmd[Len(cmd)]

\* variant: the error events are kept as long as the ledger rows
cleanup_LogsKeptAsForwards(now, log, table) ==
    LET kept_log == {e \in log : ~(e.created_at < ForwardsCutoff(now))}
        kept == [k \in Keys |-> IF IsPruned(table[k], now) THEN NoRow ELSE table[k]]
        deleted_logs == DeleteStatus(Cardinality(log \ kept_log))
        deleted_forwards == DeleteStatus(Cardinality({k \in Keys : table[k] # kept[k]}))
    IN  [event_log |-> kept_log, rows |-> kept,
         result |-> [event_log |-> count(deleted_logs),
                     forwarded_messages |-> count(deleted_forwards)]]

\* Repo.cleanup at now: the two tables after the two DELETEs and the dict
\* returned
cleanup(now, log, table) ==
    LET kept_log == {e \in log : ~(e.created_at < LogCutoff(now))}
        kept == [k \in Keys |-> IF IsPruned(table[k], now) THEN NoRow ELSE table[k]]
        deleted_logs == DeleteStatus(Cardinality(log \ kept_log))
        deleted_forwards == DeleteStatus(Cardinality({k \in Keys : table[k] # kept[k]}))
    IN  [event_log |-> kept_log, rows |-> kept,
         result |-> [event_log |-> count(deleted_logs),
                     forwarded_messages |-> count(deleted_forwards)]]

\* f"Cleanup done: event_log={...}, forwarded_messages={...}"
CleanupEvent(counts) ==
    [kind |-> "Cleanup done", chat_id |-> NoChat, event_log |-> counts.event_log,
     forwarded_messages |-> counts.forwarded_messages]

\* one call of Repo.cleanup; the DELETE waits for a row a claim has locked
RunCleanup ==
    /\ cleanup_calls < MaxCleanups
    /\ \A k \in Keys : IsPruned(rows[k], clock) => lock[k] = NoWorker
    /\ event_log' = cleanup(clock, event_log, rows).event_log
    /\ rows' = cleanup(clock, event_log, rows).rows
    /\ cleanup_result' = cleanup(clock, event_log, rows).result
    /\ cleanup_fresh' = TRUE
    /\ cleanup_calls' = cleanup_calls + 1

\* _cleanup_loop: await asyncio.sleep(sleep_seconds) returns
CleanerWake ==
    /\ cleaner = "sleep"
    /\ cleaner' = "cleanup"
    /\ UNCHANGED <<programVars, titleVars, sideVars, hostVars, cleanup_result, cleanup_fresh, cleanup_calls>>

\* result = await repo.cleanup()
CleanerCleanup ==
    /\ cleaner = "cleanup"
    /\ RunCleanup
    /\ cleaner' = "report"
    /\ UNCHANGED <<clock, lock, workerVars, ghostVars, runtimeVars, titleVars, sideVars, hostVars>>

\* await repo.cleanup() raises
CleanerCleanupRaises ==
    /\ cleaner = "cleanup"
    /\ cleaner' = "ended"
    /\ UNCHANGED <<programVars, titleVars, sideVars, hostVars, cleanup_result, cleanup_fresh, cleanup_calls>>

\* await repo.app_status_set_event(...), and the next turn of while True
CleanerReport ==
    /\ cleaner = "report"
    /\ status_event' = CleanupEvent(cleanup_result)
    /\ cleaner' = "sleep"
    /\ UNCHANGED <<forwardingVars, event_log, ghostVars, envVars, controlVars, status_connected,
                   status_error, cacheVars, supVars, clientVars, inflight, relay_target, tickVars,
                   titleVars, sideVars, hostVars, cleanup_result, cleanup_fresh, cleanup_calls>>

\* await repo.app_status_set_event(...) raises
CleanerReportRaises ==
    /\ cleaner = "report"
    /\ cleaner' = "ended"
    /\ UNCHANGED <<programVars, titleVars, sideVars, hostVars, cleanup_result, cleanup_fresh, cleanup_calls>>

\* POST /controls/cleanup
cleanup_data ==
    /\ RunCleanup
    /\ status_event' = CleanupEvent(cleanup_result')
    /\ UNCHANGED <<clock, lock, workerVars, ghostVars, envVars, controlVars, status_connected,
                   status_error, cacheVars, supVars, clientVars, inflight, relay_target, tickVars,
                   titleVars, sideVars, hostVars, cleaner>>

\* an error event is logged by the runtime
LogError ==
    /\ Put(event_error_add(St, HandlerError))
    /\ UNCHANGED <<forwardingVars, ghostVars, envVars, controlVars, status_event, supVars,
                   clientVars, inflight, relay_target, tickVars, auxVars>>

\* forwarded_claim by a caller that finds no row: the INSERT
InsertForward(k) ==
    /\ rows[k] = NoRow
    /\ lock[k] = NoWorker
    /\ rows' = [rows EXCEPT ![k] = InsertedRow(clock)]
    /\ UNCHANGED <<clock, lock, event_log, workerVars, ghostVars, runtimeVars, auxVars>>

\* time passes
Later(A) ==
    /\ A
    /\ cleanup_fresh' = FALSE
    /\ UNCHANGED <<ghostVars, runtimeVars, titleVars, sideVars, hostVars, cleaner, cleanup_result,
                   cleanup_calls>>

CleanerNext ==
    \/ Later(Tick)
    \/ Later(SleepDays(LogRetentionDays))
    \/ Later(SleepDays(ForwardsRetentionDays))
    \/ \E k \in Keys : InsertForward(k)
    \/ LogError
    \/ CleanerWake
    \/ CleanerCleanup
    \/ CleanerCleanupRaises
    \/ CleanerReport
    \/ CleanerReportRaises
    \/ cleanup_data

SpecCleaner == Init /\ [][CleanerNext]_vars

----------------------------------------------------------------------------
\* The host application: the connection pool, its closing in on_shutdown, and
\* the supervisor when a repository call of the polling loop raises.

\* the database stops answering; taken when the supervisor is about to poll
DbFails ==
    /\ run_loop = "poll"
    /\ db_up
    /\ db_up' = FALSE
    /\ UNCHANGED <<programVars, titleVars, sideVars, cleanerVars, pool_closed, handler_raised>>

\* the database answers again while the supervisor task is alive
DbRecovers ==
    /\ run_loop \notin {"stopped", "crashed"}
    /\ ~db_up
    /\ ~pool_closed
    /\ db_up' = TRUE
    /\ UNCHANGED <<programVars, titleVars, sideVars, cleanerVars, pool_closed, handler_raised>>

\* on_shutdown: await pool.close(), which comes before runtime.stop()
PoolClose ==
    /\ run_loop = "poll"
    /\ ~pool_closed
    /\ ~stop_event
    /\ pool_closed' = TRUE
    /\ db_up' = FALSE
    /\ UNCHANGED <<programVars, titleVars, sideVars, cleanerVars, handler_raised>>

\* state = await self._repo.bot_state_get() raises
PollRaises ==
    /\ run_loop = "poll"
    /\ ~stop_event
    /\ ~db_up
    /\ run_loop' = "except"
    /\ branch' = "raised"
    /\ UNCHANGED <<forwardingVars, auxVars, event_log, envVars, controlVars, statusVars,
                   cacheVars, resume, ok, scan, last_restart_seen, client, target_chat_id,
                   target_title, handlers_installed, clientVars, inflight>>

\* except Exception as exc: the two reports, which raise in their turn without
\* the database; then the finally block up to the await of the disconnect
ExceptBlock ==
    /\ run_loop = "except"
    /\ disconnect_client(IF db_up
                         THEN event_error_add(app_status_set_error(St, DbError), DbError)
                         ELSE St,
                         status_event, "raised")
    /\ UNCHANGED <<forwardingVars, auxVars, branch, envVars, controlVars, scan,
                   last_restart_seen, clientVars, inflight>>

\* the steps of the supervisor task
SupervisorNext ==
    \/ Start /\ UNCHANGED allGhosts
    \/ LoopExit /\ UNCHANGED allGhosts
    \/ PollRestart /\ UNCHANGED allGhosts
    \/ PollDisabled /\ UNCHANGED allGhosts
    \/ EnsureConfigError /\ UNCHANGED allGhosts
    \/ EnsureClient /\ UNCHANGED allGhosts
    \/ Connect /\ UNCHANGED allGhosts
    \/ ConnectRaises /\ UNCHANGED allGhosts
    \/ Authorize /\ UNCHANGED allGhosts
    \/ AuthorizeRefused /\ UNCHANGED allGhosts
    \/ AuthorizeRaises /\ UNCHANGED allGhosts
    \/ CatchUp /\ UNCHANGED allGhosts
    \/ Resolve /\ relay_target' = target_chat_id' /\ UNCHANGED <<ghostVars, tickVars>>
    \/ ResolveRaises /\ UNCHANGED allGhosts
    \/ /\ DisconnectWait
       /\ relay_target' = IF conn'[client] THEN relay_target ELSE NoChat
       /\ UNCHANGED <<ghostVars, tickVars>>
    \/ Sleep /\ UNCHANGED allGhosts
    \/ PollRaises /\ UNCHANGED allGhosts
    \/ ExceptBlock /\ UNCHANGED allGhosts

\* the supervisor, the admin panel and the host, on an account that receives
\* no message and keeps its connections
HostNext ==
    \/ SupervisorNext
    \/ \E enabled \in BOOLEAN : bot_state_set_enabled(enabled) /\ UNCHANGED allGhosts
    \/ bot_state_request_restart /\ UNCHANGED allGhosts
    \/ Stop /\ UNCHANGED allGhosts
    \/ DbFails
    \/ DbRecovers
    \/ PoolClose

SpecHost == RuntimeInit /\ [][HostNext]_vars

\* the event loop runs the supervisor task whenever it can take a step
SpecShutdown == SpecHost /\ WF_vars(SupervisorNext)

----------------------------------------------------------------------------
\* The ticks of the supervisor on a process whose environment is valid, with
\* a record of what each tick writes.  The session file can be removed and
\* put back while the process runs.

\* os.path.exists(session_path) changes between two ticks
SessionFileChange ==
    /\ run_loop = "poll"
    /\ session_exists' = ~session_exists
    /\ UNCHANGED <<forwardingVars, auxVars, event_log, TARGET_CHANNEL, api_configured,
                   controlVars, statusVars, cacheVars, supVars, clientVars, inflight>>

\* if prev_target_id != resolved or (prev_target_title or "") != target_title:
\* the event is written
ResolvedEventWritten ==
    target_chat_id # target_chat_id' \/ target_title # target_title'

\* 1 when the step does it, else 0
Count(done) == IF done THEN 1 ELSE 0

\* what a step of the supervisor adds to the record of the tick; a write of
\* _set_connected or _set_error goes with a change of its cache
Track(catch_up_failed) ==
    LET connected == connected_cache' # connected_cache
        error == last_error_cache' # last_error_cache /\ last_error_cache' # "None"
        succeeded == ok # "True" /\ ok' = "True"
    IN  /\ tick_writes' =
              IF run_loop = "sleep" THEN NoWrites
              ELSE [connected |-> tick_writes.connected + Count(connected),
                    error |-> tick_writes.error + Count(error) + Count(catch_up_failed),
                    rows |-> tick_writes.rows + Count(error) + Count(catch_up_failed)]
        /\ prev_report' = IF run_loop = "sleep"
                          THEN <<connected_cache, last_error_cache>> ELSE prev_report
        /\ prev_resolution' = IF succeeded THEN <<target_chat_id', target_title'>>
                              ELSE prev_resolution
        /\ resolved_written' = IF succeeded THEN ResolvedEventWritten
                               ELSE IF run_loop = "sleep" THEN FALSE ELSE resolved_written

TicksInit ==
    /\ RuntimeInit
    /\ Strip(TARGET_CHANNEL) # <<>>
    /\ api_configured
    /\ session_exists

TicksNext ==
    \/ Start /\ Track(FALSE) /\ UNCHANGED <<ghostVars, relay_target>>
    \/ PollRestart /\ Track(FALSE) /\ UNCHANGED <<ghostVars, relay_target>>
    \/ PollDisabled /\ Track(FALSE) /\ UNCHANGED <<ghostVars, relay_target>>
    \/ EnsureConfigError /\ Track(FALSE) /\ UNCHANGED <<ghostVars, relay_target>>
    \/ EnsureClient /\ Track(FALSE) /\ UNCHANGED <<ghostVars, relay_target>>
    \/ Connect /\ Track(FALSE) /\ UNCHANGED <<ghostVars, relay_target>>
    \/ ConnectRaises /\ Track(FALSE) /\ UNCHANGED <<ghostVars, relay_target>>
    \/ Authorize /\ Track(FALSE) /\ UNCHANGED <<ghostVars, relay_target>>
    \/ AuthorizeRefused /\ Track(FALSE) /\ UNCHANGED <<ghostVars, relay_target>>
    \/ AuthorizeRaises /\ Track(FALSE) /\ UNCHANGED <<ghostVars, relay_target>>
    \/ \E failed \in BOOLEAN :
          CatchUpStep(failed) /\ Track(failed) /\ UNCHANGED <<ghostVars, relay_target>>
    \/ Resolve /\ Track(FALSE) /\ relay_target' = target_chat_id' /\ UNCHANGED ghostVars
    \/ ResolveRaises /\ Track(FALSE) /\ UNCHANGED <<ghostVars, relay_target>>
    \/ /\ DisconnectWait
       /\ Track(FALSE)
       /\ relay_target' = IF conn'[client] THEN relay_target ELSE NoChat
       /\ UNCHANGED ghostVars
    \/ Sleep /\ Track(FALSE) /\ UNCHANGED <<ghostVars, relay_target>>
    \/ \E enabled \in BOOLEAN : bot_state_set_enabled(enabled) /\ UNCHANGED allGhosts
    \/ bot_state_request_restart /\ UNCHANGED allGhosts
    \/ SessionFileChange /\ UNCHANGED allGhosts
    \/ \E c \in 1..clients_created : ConnectionLost(c) /\ UNCHANGED allGhosts

SpecTicks == TicksInit /\ [][TicksNext]_vars

----------------------------------------------------------------------------
\* The dispatcher on a process whose environment is valid and whose database
\* can stop answering.

DispatchNext ==
    \/ Start /\ UNCHANGED allGhosts
    \/ PollDisabled /\ UNCHANGED allGhosts
    \/ EnsureClient /\ UNCHANGED allGhosts
    \/ Connect /\ UNCHANGED allGhosts
    \/ ConnectRaises /\ UNCHANGED allGhosts
    \/ Authorize /\ UNCHANGED allGhosts
    \/ AuthorizeRefused /\ UNCHANGED allGhosts
    \/ AuthorizeRaises /\ UNCHANGED allGhosts
    \/ CatchUp /\ UNCHANGED allGhosts
    \/ Resolve /\ relay_target' = target_chat_id' /\ UNCHANGED <<ghostVars, tickVars>>
    \/ ResolveRaises /\ UNCHANGED allGhosts
    \/ /\ DisconnectWait
       /\ relay_target' = IF conn'[client] THEN relay_target ELSE NoChat
       /\ UNCHANGED <<ghostVars, tickVars>>
    \/ Sleep /\ UNCHANGED allGhosts
    \/ PollRaises /\ UNCHANGED allGhosts
    \/ ExceptBlock /\ UNCHANGED allGhosts
    \/ \E enabled \in BOOLEAN : bot_state_set_enabled(enabled) /\ UNCHANGED allGhosts
    \/ DbFails
    \/ DbRecovers
    \/ \E c \in 1..clients_created, chat_id \in EventChats, g \in BOOLEAN :
          OnNewMessage(c, chat_id, g) /\ UNCHANGED allGhosts
    \/ \E c \in 1..clients_created : OnNewMessageRaises(c) /\ UNCHANGED allGhosts
    \/ HandlerWrite /\ UNCHANGED allGhosts

SpecDispatch == TicksInit /\ [][DispatchNext]_vars

----------------------------------------------------------------------------
\* The checkpoints of the channels.

MessageIds == 1..MaxMessageId
MessageDates == 0..MaxTicks

\* Repo.checkpoint_get: the row of the channel, or (None, None)
checkpoint_get(table, source_chat_id) ==
    IF table[source_chat_id] = NoCheckpoint THEN <<NULL, NULL>>
    ELSE <<table[source_chat_id].last_message_id, table[source_chat_id].last_message_date>>

\* the row INSERT ... ON CONFLICT (channel_id) DO UPDATE leaves: the three
\* columns are the EXCLUDED ones, whatever the row held
upserted_row(old, last_message_id, last_message_date, now) ==
    [last_message_id |-> last_message_id,
     last_message_date |-> last_message_date,
     updated_at |-> now]

\* Repo.checkpoint_upsert
checkpoint_upsert(source_chat_id, last_message_id, last_message_date) ==
    /\ channel_checkpoint' =
           [channel_checkpoint EXCEPT ![source_chat_id] =
                upserted_row(@, last_message_id, last_message_date, clock)]
    /\ checkpoint_call' = [source_chat_id |-> source_chat_id,
                           last_message_id |-> last_message_id]
    /\ UNCHANGED <<programVars, titleVars, hostVars, cleanerVars, scheduleVars, backend_ok>>

CheckpointNext ==
    \/ \E c \in CheckpointChats, id \in MessageIds, d \in MessageDates :
          checkpoint_upsert(c, id, d)
    \/ Tick /\ UNCHANGED <<ghostVars, runtimeVars, auxVars>>

SpecCheckpoint == Init /\ [][CheckpointNext]_vars

----------------------------------------------------------------------------
\* The next run of the retention cleaner.

Years == {2023, 2024}
Months == 1..12
\* the times of day under study, in seconds after midnight
TimesOfDay == {0, CleanupHour * 3600 - 1, CleanupHour * 3600, CleanupHour * 3600 + 1,
               SecondsPerDay - 1}
Microseconds == {0, 500000}

\* calendar.monthrange(year, month)[1]
DaysInMonth(year, month) ==
    IF month = 2
    THEN IF year % 4 = 0 /\ (year % 100 # 0 \/ year % 400 = 0) THEN 29 ELSE 28
    ELSE IF month \in {4, 6, 9, 11} THEN 30 ELSE 31

\* datetime.now(timezone.utc) can return
Moments ==
    {[year |-> y, month |-> m, day |-> d, second |-> t, microsecond |-> u] :
        y \in Years, m \in Months, d \in 1..31, t \in TimesOfDay, u \in Microseconds}

\* datetime.replace(hour=3, minute=0, second=0, microsecond=0)
AtCleanupHour(moment) == [moment EXCEPT !.second = CleanupHour * 3600, !.microsecond = 0]

\* next_run <= now, for two datetimes of the same date
NotAfter(a, b) ==
    a.second < b.second \/ (a.second = b.second /\ a.microsecond <= b.microsecond)

\* int((next_run - now).total_seconds()), for next_run on the date of now
\* (days = 0) or on the following date (days = 1); next_run is after now, so
\* the truncation drops a started second
WholeSeconds(next, moment, days) ==
    LET seconds == days * SecondsPerDay + next.second - moment.second
    IN  IF next.microsecond < moment.microsecond THEN seconds - 1 ELSE seconds

\* max(1, n)
AtLeastOne(n) == IF n < 1 THEN 1 ELSE n

\* _cleanup_loop, from datetime.now to asyncio.sleep: datetime.replace raises
\* ValueError("day is out of range for month") when the date has no such day
ComputeNextRun ==
    /\ schedule = "now"
    /\ LET at3 == AtCleanupHour(now_utc)
       IN  IF NotAfter(at3, now_utc)
           THEN IF at3.day + 1 > DaysInMonth(at3.year, at3.month)
                THEN /\ schedule' = "raised"
                     /\ UNCHANGED <<next_run, sleep_seconds>>
                ELSE /\ schedule' = "computed"
                     /\ next_run' = [at3 EXCEPT !.day = at3.day + 1]
                     /\ sleep_seconds' = AtLeastOne(WholeSeconds(at3, now_utc, 1))
           ELSE /\ schedule' = "computed"
                /\ next_run' = at3
                /\ sleep_seconds' = AtLeastOne(WholeSeconds(at3, now_utc, 0))
    /\ UNCHANGED <<programVars, titleVars, hostVars, cleanerVars, storeVars, now_utc, backend_ok>>

ScheduleInit ==
    /\ InitLedger
    /\ InitRuntime
    /\ InitTitles
    /\ InitHost
    /\ InitCleaner
    /\ InitStore
    /\ backend_ok = FALSE
    /\ TARGET_CHANNEL = <<>>
    /\ api_configured = FALSE
    /\ session_exists = FALSE
    /\ status_connected = FALSE
    /\ now_utc \in {m \in Moments : m.day <= DaysInMonth(m.year, m.month)}
    /\ next_run = NoMoment
    /\ sleep_seconds = NULL
    /\ schedule = "now"

ScheduleNext == ComputeNextRun

SpecSchedule == ScheduleInit /\ [][ScheduleNext]_vars

----------------------------------------------------------------------------
\* The supervisor on a process whose environment is valid, whose control
\* state, once enabled, stays enabled, and whose backend settles: from some
\* point on connect, is_user_authorized, catch_up and iter_dialogs succeed and
\* exactly one dialog matches the target title.

BackendSettles ==
    /\ ~backend_ok
    /\ backend_ok' = TRUE
    /\ UNCHANGED <<programVars, titleVars, hostVars, cleanerVars, storeVars, scheduleVars>>

\* the dialog scan of this step found exactly one match
OneMatch == Cardinality(Matches(scan'.dialogs, Strip(TARGET_CHANNEL))) = 1

\* the steps of the supervisor task
ReconnectSupervisor ==
    \/ Start /\ UNCHANGED allGhosts
    \/ PollRestart /\ UNCHANGED allGhosts
    \/ PollDisabled /\ UNCHANGED allGhosts
    \/ EnsureClient /\ UNCHANGED allGhosts
    \/ Connect /\ UNCHANGED allGhosts
    \/ ~backend_ok /\ ConnectRaises /\ UNCHANGED allGhosts
    \/ Authorize /\ UNCHANGED allGhosts
    \/ ~backend_ok /\ AuthorizeRefused /\ UNCHANGED allGhosts
    \/ ~backend_ok /\ AuthorizeRaises /\ UNCHANGED allGhosts
    \/ \E failed \in BOOLEAN :
          (failed => ~backend_ok) /\ CatchUpStep(failed) /\ UNCHANGED allGhosts
    \/ ~backend_ok /\ ResolveRaises /\ UNCHANGED allGhosts
    \/ /\ DisconnectWait
       /\ relay_target' = IF conn'[client] THEN relay_target ELSE NoChat
       /\ UNCHANGED <<ghostVars, tickVars>>
    \/ Sleep /\ UNCHANGED allGhosts

\* the scan of the dialogs and the rest of _ensure_connected
ReconnectResolve ==
    /\ Resolve
    /\ backend_ok => OneMatch
    /\ relay_target' = target_chat_id'
    /\ UNCHANGED <<ghostVars, tickVars>>

ReconnectNext ==
    \/ ReconnectSupervisor
    \/ ReconnectResolve
    \/ bot_state_set_enabled(TRUE) /\ UNCHANGED allGhosts
    \/ bot_state_request_restart /\ UNCHANGED allGhosts
    \/ BackendSettles

\* the event loop runs the supervisor task whenever it can take a step, the
\* scan of the dialogs returns or raises (ReconnectResolve can be taken
\* wherever the supervisor is in the scan), and the backend settles
SpecReconnect ==
    /\ TicksInit
    /\ [][ReconnectNext]_vars
    /\ WF_vars(ReconnectSupervisor)
    /\ []<>(run_loop # "resolve")
    /\ WF_vars(BackendSettles)

----------------------------------------------------------------------------
\* _normalize_title applied to titles and to their variants.

\* the characters of the titles: a letter and its capital, the space and the
\* tabulator, the accented vowel U+0451 and its base letter U+0435, and the
\* two characters of the sequence that replace() looks for
TitleChars == {"a", "A", "SP", "TAB", "U+0451", "U+0435", "U+0E31", "U+0091"}

Titles == UNION {[1..n -> TitleChars] : n \in 0..MaxTitleLen}

TitlesInit ==
    /\ InitLedger
    /\ InitRuntime
    /\ InitHost
    /\ InitCleaner
    /\ InitStore
    /\ InitSchedule
    /\ backend_ok = FALSE
    /\ TARGET_CHANNEL = <<>>
    /\ api_configured = FALSE
    /\ session_exists = FALSE
    /\ status_connected = FALSE
    /\ phase = "input"
    /\ title_in \in Titles
    /\ title_var = <<>>
    /\ relation = "none"
    /\ norm_in = <<>>
    /\ norm_var = <<>>
    /\ norm_twice = <<>>

\* title_var becomes v, which differs from title_in in the respect r
Vary(v, r) ==
    /\ phase = "input"
    /\ phase' = "pair"
    /\ title_var' = v
    /\ relation' = r
    /\ UNCHANGED <<programVars, hostVars, cleanerVars, sideVars, title_in, norm_in, norm_var, norm_twice>>

\* the letter at position i in the other case
SwapCase(i) ==
    /\ title_in[i] \in {"a", "A"}
    /\ Vary([title_in EXCEPT ![i] = IF @ = "a" THEN "A" ELSE "a"], "case")

\* one more whitespace character in front or at the end
PadOuter(c, front) ==
    /\ IsSpace(c)
    /\ Vary(IF front THEN <<c>> \o title_in ELSE title_in \o <<c>>, "outer whitespace")

\* one more whitespace character after the whitespace at position i inside
\* the title
LengthenRun(i, c) ==
    /\ IsSpace(c)
    /\ 1 < i /\ i < Len(title_in)
    /\ IsSpace(title_in[i])
    /\ Vary(SubSeq(title_in, 1, i) \o <<c>> \o SubSeq(title_in, i + 1, Len(title_in)),
            "whitespace run")

\* the accented vowel at position i replaced by its base letter
Unaccent(i) ==
    /\ title_in[i] = "U+0451"
    /\ Vary([title_in EXCEPT ![i] = "U+0435"], "accent")

\* both titles are normalized, and the normalized title once more
Normalize ==
    /\ phase = "pair"
    /\ phase' = "done"
    /\ norm_in' = normalize_title(title_in)
    /\ norm_var' = normalize_title(title_var)
    /\ norm_twice' = normalize_title(normalize_title(title_in))
    /\ UNCHANGED <<programVars, hostVars, cleanerVars, sideVars, title_in, title_var, relation>>

TitlesNext ==
    \/ \E i \in DOMAIN title_in : SwapCase(i)
    \/ \E c \in TitleChars, front \in BOOLEAN : PadOuter(c, front)
    \/ \E i \in DOMAIN title_in, c \in TitleChars : LengthenRun(i, c)
    \/ \E i \in DOMAIN title_in : Unaccent(i)
    \/ Normalize

SpecTitles == TitlesInit /\ [][TitlesNext]_vars

----------------------------------------------------------------------------
\* Properties of the runtime.  (checked under SpecRuntime)

\* C8: an inbound message event whose chat is the relay target channel,
\* delivered to the dispatcher while its client is live, is never passed on
\* to be reported as a status event, whatever the supervisor is doing.
C8_TargetEventsNotReported ==
    [][(inflight = NoDelivery /\ inflight'.kind = "New message")
           => inflight'.chat_id # relay_target]_vars

\* C9: should_monitor_chat(absent) is false; while a target is resolved,
\* should_monitor_chat is false for the target and true for every other
\* non-absent id; while no target is resolved, is_target_chat is false for
\* every id.
C9_MonitorRule ==
    /\ ~should_monitor_chat(NoChat)
    /\ target_chat_id # NoChat =>
          /\ ~should_monitor_chat(target_chat_id)
          /\ \A id \in ChatIds \ {target_chat_id} : should_monitor_chat(id)
    /\ target_chat_id = NoChat =>
          \A id \in ChatIds \cup {NoChat} : ~is_target_chat(id)

\* a target is resolved and the handler has let an event of another chat pass
C9_Witness ==
    /\ target_chat_id # NoChat
    /\ inflight.kind = "New message"
    /\ inflight.chat_id # target_chat_id

\* the dialogs of this tick's scan whose normalized title is the normalized
\* configured title
MatchingDialogs ==
    {d \in scan.dialogs : normalize_title(d.name) = normalize_title(TARGET_CHANNEL)}

ErrorLogged(message) == \E e \in event_log : e.message = message

\* C10: at the end of a tick whose connection attempt scanned the dialogs, a
\* target id is held iff exactly one dialog matched, and it is that dialog's
\* id; with no match the "not found" error, with several the "ambiguous"
\* error is the supervisor's reported error and is in the error-event log,
\* the attempt returned False, connected is reported false and no target id
\* is held.
C10_ResolutionOutcome ==
    (run_loop = "sleep" /\ scan.done) =>
        LET n == Cardinality(MatchingDialogs)
        IN  /\ (target_chat_id # NoChat) <=> (n = 1)
            /\ n = 1 => /\ target_chat_id \in {d.id : d \in MatchingDialogs}
                        /\ ok = "True"
            /\ n = 0 => last_error_cache = NotFoundError /\ ErrorLogged(NotFoundError)
            /\ n > 1 => last_error_cache = AmbiguousError /\ ErrorLogged(AmbiguousError)
            /\ n # 1 => /\ ok = "False"
                        /\ connected_cache = "False"
                        /\ ~status_connected
                        /\ target_chat_id = NoChat

\* a tick ends with an ambiguous scan on a client whose earlier tick had
\* resolved a target and installed the handler
C10_Witness ==
    /\ run_loop = "sleep"
    /\ scan.done
    /\ Cardinality(MatchingDialogs) > 1
    /\ last_error_cache = AmbiguousError
    /\ target_chat_id = NoChat
    /\ \E c \in 1..clients_created : handlers[c] > 0

\* C12: a tick takes the soft restart branch exactly when the
\* restart_requested_at it reads is set and differs from the value last
\* seen, which it then records, so that no later tick restarts for the same
\* value; at the end of a restart tick no client handle and no target id is
\* held and connected is reported false, and no connection attempt was made.
C12_RestartOncePerValue ==
    [][/\ (branch = "none" /\ branch' = "restart") =>
              /\ bot_state.restart_requested_at # NULL
              /\ bot_state.restart_requested_at # last_restart_seen
              /\ last_restart_seen' = bot_state.restart_requested_at
       /\ (branch = "none" /\ branch' \in {"disabled", "ensure"}) =>
              \/ bot_state.restart_requested_at = NULL
              \/ bot_state.restart_requested_at = last_restart_seen
       /\ branch = "restart" => run_loop' \in {"disconnect", "sleep", "poll"}
       /\ (branch' = "restart" /\ run_loop' = "sleep") =>
              /\ client' = NoClient
              /\ target_chat_id' = NoChat
              /\ connected_cache' = "False"
              /\ ~status_connected']_vars

\* a restart tick ends after it has disconnected a client that was connected
\* with a resolved target
C12_Witness ==
    /\ branch = "restart"
    /\ run_loop = "sleep"
    /\ last_restart_seen = bot_state.restart_requested_at
    /\ \E c \in 1..clients_created : handlers[c] > 0 /\ ~conn[c]

\* C13: a tick that reads enabled = false (or no bot_state row) does not
\* enter _ensure_connected: it takes the disabled or the restart branch,
\* goes only to the disconnect and the sleep, and ends with no client handle,
\* no target id and app_status.connected = false.
C13_DisabledTick ==
    [][/\ (branch = "none" /\ branch' = "ensure") =>
              bot_state.present /\ bot_state.enabled
       /\ branch = "disabled" => run_loop' \in {"disconnect", "sleep", "poll"}
       /\ (run_loop' = "sleep" /\ ~bot_state'.enabled) =>
              /\ branch' \in {"disabled", "restart"}
              /\ client' = NoClient
              /\ target_chat_id' = NoChat
              /\ ~status_connected']_vars

\* a disabled tick ends after it has disconnected a client that had a
\* resolved target
C13_Witness ==
    /\ branch = "disabled"
    /\ run_loop = "sleep"
    /\ ~bot_state.enabled
    /\ \E c \in 1..clients_created : handlers[c] > 0

\* C14: no client ever has more than one handler registered; the guard flag
\* tells whether the held client has its handler, so that ticks reusing or
\* reconnecting the handle register nothing; whenever connected is reported
\* the held client has its handler; every successful tick ends with exactly
\* one handler on the held client, also on a client created after a
\* disconnect.
C14_SingleRegistration ==
    /\ \A c \in 1..MaxClients : handlers[c] <= 1
    /\ (client # NoClient /\ run_loop # "disconnect") =>
           (handlers_installed <=> handlers[client] = 1)
    /\ connected_cache = "True" => client # NoClient /\ handlers[client] = 1
    /\ ok = "True" => client # NoClient /\ handlers[client] = 1

\* the second client, created after a disconnect of the first, has its own
\* handler and has been reused by a later successful tick (the tick reported
\* a changed target, not a new registration)
C14_Witness ==
    /\ clients_created = 2
    /\ client = 2
    /\ handlers[1] = 1
    /\ handlers[2] = 1
    /\ ok = "True"
    /\ status_event = Event("Target channel resolved")

\* C15: when a connection attempt succeeds, the tick leaves
\* app_status.connected = true and app_status.last_error = NULL, whatever
\* was written before.
C15_SuccessClearsError ==
    [][(ok # "True" /\ ok' = "True") =>
           status_connected' /\ status_error' = "NULL"]_vars

\* C16: when a connection attempt fails, the tick leaves
\* app_status.connected = false and app_status.last_error equal to the error
\* captured for the failure.
C16_FailureLeavesError ==
    [][(ok # "False" /\ ok' = "False") =>
           ~status_connected' /\ status_error' = last_error_cache']_vars

\* the supervisor task has ended, by leaving the loop or with an exception
Exited == run_loop \in {"stopped", "crashed"}

\* C17: after stop the supervisor loop eventually exits, and at the exit the
\* client is absent, the durable status says connected = false and the stop
\* event is the latest status event; for a direct stop and for the shutdown
\* sequence of the application alike.
C17_StopExitsCleanly ==
    /\ stop_event ~> Exited
    /\ [][(stop_event /\ ~Exited /\ Exited') =>
              /\ client' = NoClient
              /\ ~status_connected'
              /\ status_event' = Event("Bot runtime stopped")]_vars

\* C20: a failing connection attempt leaves the supervisor loop running; the
\* loop ends only on stop or on an exception escaping the main loop, and then
\* the error is in the status and in the error-event log and the client is
\* gone.
C20_OnlyEscapingExceptionEnds ==
    [][/\ (ok # "False" /\ ok' = "False") => run_loop' = "sleep"
       /\ (~Exited /\ Exited') => (stop_event \/ branch' = "raised")
       /\ (~Exited /\ Exited' /\ branch' = "raised") =>
              /\ status_error' = DbError
              /\ \E e \in event_log' : e.message = DbError
              /\ client' = NoClient]_vars

\* C21: every disconnect, whichever branch asks for it and however the wait
\* for it ends, leaves no client handle, no target id and no handlers flag;
\* a target id is never held without a client handle.
C21_DisconnectResets ==
    /\ [](/\ target_chat_id # NoChat => client # NoClient
          /\ handlers_installed => client # NoClient
          /\ run_loop = "disconnect" => target_chat_id = NoChat /\ ~handlers_installed)
    /\ [][/\ (run_loop = "disconnect" /\ run_loop' # "disconnect") =>
                 client' = NoClient /\ target_chat_id' = NoChat /\ ~handlers_installed'
          /\ (run_loop = "poll" /\ branch' \in {"restart", "disabled", "final"}) =>
                 /\ target_chat_id' = NoChat /\ ~handlers_installed'
                 /\ run_loop' # "disconnect" => client' = NoClient
          /\ (client # NoClient /\ client' = NoClient) =>
                 target_chat_id' = NoChat /\ ~handlers_installed'
          /\ (client = NoClient /\ client' # NoClient) =>
                 target_chat_id = NoChat /\ ~handlers_installed]_vars

\* a disconnect that timed out has been followed by a new connection cycle
C21_Witness ==
    /\ client = 2
    /\ conn[1] /\ handlers[1] = 1
    /\ run_loop = "connect"
    /\ target_chat_id = NoChat
    /\ ~handlers_installed

\* the clients that are connected with the dispatcher registered on them
LiveDispatchers == {c \in 1..MaxClients : conn[c] /\ handlers[c] > 0}

\* C28: at most one client with a registered dispatcher is connected, and a
\* client the supervisor has discarded is not among them once its
\* replacement exists.
C28_OneLiveDispatcher ==
    /\ Cardinality(LiveDispatchers) <= 1
    /\ \A c \in LiveDispatchers : c = client \/ clients_created = c

----------------------------------------------------------------------------
\* Properties of the ticks.  (checked under SpecTicks)

\* C24: a "Target channel resolved" event is written only when the resolved
\* id or the title differs from those of the previous successful resolution.
C24_ResolutionEventOnChange ==
    [][(ok # "True" /\ ok' = "True" /\ resolved_written') =>
           prev_resolution # <<target_chat_id', target_title'>>]_vars

\* C25: a tick that reports the connected value and the error text of the
\* tick before it writes neither the connected flag nor the status error and
\* adds no error event.
C25_DedupedWrites ==
    [][(run_loop # "sleep" /\ run_loop' = "sleep"
            /\ prev_report = <<connected_cache', last_error_cache'>>) =>
           tick_writes' = NoWrites]_vars

\* C29: at the end of a tick that reported connected = false no client handle
\* is held and no connected client has the dispatcher registered.
C29_DisconnectedMeansNoClient ==
    (run_loop = "sleep" /\ connected_cache = "False" /\ ~status_connected) =>
        client = NoClient /\ LiveDispatchers = {}

\* C30: at the end of every tick the durable connected flag equals the cached
\* one, whatever the store held when the process started, and a cached flag
\* of true goes with a held client, a resolved target id and the handlers
\* flag.
C30_ConnectedFlagConsistent ==
    run_loop = "sleep" =>
        /\ connected_cache # "None"
        /\ status_connected <=> connected_cache = "True"
        /\ connected_cache = "True" =>
               client # NoClient /\ target_chat_id # NoChat /\ handlers_installed

\* the second client of the process is connected at the end of a tick
C30_Witness ==
    /\ run_loop = "sleep"
    /\ connected_cache = "True"
    /\ status_connected
    /\ client = 2
    /\ target_chat_id # NoChat
    /\ handlers_installed

----------------------------------------------------------------------------
\* Properties of the dispatcher.  (checked under SpecDispatch)

\* what the except clause of the handler is about to report
Caught == inflight # NoDelivery /\ inflight.kind \in {"error", "db error"}

\* C22: an exception raised while the handler processes one event is caught in
\* that invocation and reported as an error event (the status error and a log
\* row); it never leaves the handler, it changes neither the client handle nor
\* the connected status, and the dispatcher still delivers afterwards.
C22_HandlerExceptionContained ==
    /\ [](~handler_raised)
    /\ [][(Caught /\ inflight' = NoDelivery) =>
              /\ status_error' = HandlerErrorText(inflight)
              /\ \E e \in event_log' : /\ e.message = HandlerErrorText(inflight)
                                        /\ e.created_at = clock
              /\ client' = client /\ conn' = conn /\ handlers' = handlers
              /\ status_connected' = status_connected
              /\ connected_cache' = connected_cache]_vars

----------------------------------------------------------------------------
\* Properties of the checkpoints.  (checked under SpecCheckpoint)

\* C26: over any sequence of upserts, the last message id stored for a channel
\* never decreases, and an upsert for one channel leaves the checkpoints of
\* all other channels unchanged.
C26_CheckpointMonotone ==
    [][channel_checkpoint' # channel_checkpoint =>
          \A c \in CheckpointChats :
              IF c = checkpoint_call'.source_chat_id
              THEN checkpoint_get(channel_checkpoint, c)[1] # NULL =>
                       checkpoint_get(channel_checkpoint', c)[1] >=
                           checkpoint_get(channel_checkpoint, c)[1]
              ELSE channel_checkpoint'[c] = channel_checkpoint[c]]_vars

----------------------------------------------------------------------------
\* Properties of the next run.  (checked under SpecSchedule)

\* the date after the date of a moment
Tomorrow(moment) ==
    IF moment.day < DaysInMonth(moment.year, moment.month)
    THEN [moment EXCEPT !.day = @ + 1]
    ELSE IF moment.month < 12
         THEN [moment EXCEPT !.day = 1, !.month = @ + 1]
         ELSE [moment EXCEPT !.day = 1, !.month = 1, !.year = @ + 1]

\* C27: for every current UTC date and time, the last day of a month and of a
\* year included, the computation does not fail, the next run is the next
\* 03:00 UTC (today before 03:00, tomorrow otherwise), and the wait is at
\* least 1 second and at most 24 hours.
C27_NextRunAlwaysComputed ==
    /\ schedule # "raised"
    /\ schedule = "computed" =>
           /\ next_run = IF now_utc.second < CleanupHour * 3600
                         THEN AtCleanupHour(now_utc)
                         ELSE Tomorrow(AtCleanupHour(now_utc))
           /\ sleep_seconds >= 1
           /\ sleep_seconds <= SecondsPerDay

----------------------------------------------------------------------------
\* Properties of reconnection.  (checked under SpecReconnect)

\* a tick has ended in the soft restart branch or in a failed attempt, while
\* the control state is enabled and h client handles have been created
Dropped(h) ==
    /\ run_loop = "sleep"
    /\ branch = "restart" \/ ok = "False"
    /\ bot_state.enabled
    /\ clients_created = h

\* a tick has ended connected, on a handle created after the h-th
Reconnected(h) ==
    /\ run_loop = "sleep"
    /\ ok = "True"
    /\ status_connected
    /\ connected_cache = "True"
    /\ client > h
    /\ conn[client]

\* the model creates no more than MaxClients handles
OutOfHandles == client = NoClient /\ clients_created = MaxClients

\* C23: with the control state enabled, a valid configuration and a backend
\* that from some point on accepts the connection with exactly one matching
\* dialog, after a soft restart or a failed attempt the supervisor eventually
\* reports connected again on a fresh client handle, and its loop has not
\* ended.
C23_EventuallyReconnected ==
    \A h \in 0..MaxClients : Dropped(h) ~> (Reconnected(h) \/ OutOfHandles)

\* connected on the second handle after a soft restart dropped the first
C23_Witness ==
    /\ Reconnected(1)
    /\ backend_ok
    /\ last_restart_seen = 1
    /\ client = 2

----------------------------------------------------------------------------
\* Properties of retention.  (checked under SpecCleaner)

\* C18: a cycle of the retention cleaner that fails, in the cleanup or in the
\* status report, does not end the cleaner loop.
C18_CleanerSurvivesFailure == cleaner # "ended"

\* seconds since the row was created
Age(created_at) == clock - created_at

\* C19: a cleanup run deletes exactly the error events older than 7 days and
\* the ledger rows older than 30 days, returns the two numbers of deleted
\* rows, and a run right after another deletes nothing.
C19_CleanupExact ==
    [][cleanup_calls' # cleanup_calls =>
          /\ event_log' = {e \in event_log :
                              Age(e.created_at) <= LogRetentionDays * SecondsPerDay}
          /\ \A k \in Keys :
                rows'[k] = IF /\ rows[k] # NoRow
                              /\ Age(rows[k].created_at) > ForwardsRetentionDays * SecondsPerDay
                           THEN NoRow ELSE rows[k]
          /\ cleanup_result' =
                [event_log |-> Cardinality(event_log \ event_log'),
                 forwarded_messages |-> Cardinality({k \in Keys : rows[k] # rows'[k]})]
          /\ cleanup_fresh =>
                cleanup_result' = [event_log |-> 0, forwarded_messages |-> 0]]_vars

\* a run has deleted one row of each table and kept a newer error event
C19_Witness ==
    /\ cleanup_fresh
    /\ cleanup_result = [event_log |-> 1, forwarded_messages |-> 1]
    /\ event_log # {}

----------------------------------------------------------------------------
\* Properties of title normalization.  (checked under SpecTitles)

\* C11: normalizing a normalized title changes nothing, and two titles that
\* differ only in letter case, in leading or trailing whitespace, in the
\* length of an internal whitespace run, or in the accented vowel versus its
\* base letter have the same normalized title.
C11_NormalizationEquivalences ==
    phase = "done" => norm_twice = norm_in /\ norm_var = norm_in

----------------------------------------------------------------------------
\* Properties of the ledger.

\* forwarded_claim of w returns in this step
ClaimReturns(w) == pc[w] = "decide" /\ pc'[w] = "returned"

\* seconds between the last claim of the row and the `now` of the call
Elapsed(w, row) == tnow[w] - row.updated_at

\* C1: concurrent forwarded_claim calls on one key: every call returns true or
\* false, and no two callers are both returned true when, for each of them,
\* the claim the other one recorded had not yet expired.  (checked under
\* SpecClaims)
C1_ConcurrentClaimsExclusive ==
    \A w \in Workers :
        pc[w] = "returned" =>
            /\ result[w] \in {"true", "false"}
            /\ \A o \in Workers \ {w} :
                  ~ /\ pc[o] = "returned" /\ key[o] = key[w]
                    /\ result[w] = "true" /\ result[o] = "true"
                    /\ tnow[w] - tnow[o] < retry[w]
                    /\ tnow[o] - tnow[w] < retry[o]

\* C2: workers that follow the protocol forward a message at most once.
\* (checked under SpecProtocol)
C2_ForwardedAtMostOnce == \A k \in Keys : forwards[k] <= 1

\* C2, amended: a message is forwarded at most once unless a claim of it was
\* granted while an earlier claimant was still at work, or cleanup deleted its
\* row.  (checked under SpecProtocol)
C2_ForwardedOnceWhileOwned ==
    \A k \in Keys : forwards[k] <= 1 \/ takeover[k] \/ purged[k]

\* a message was forwarded by the retry that followed a failed attempt, and
\* later claims of it were refused
C2_Witness ==
    \E k \in Keys, w \in Workers :
        /\ forwards[k] = 1 /\ ~takeover[k] /\ ~purged[k]
        /\ rows[k].status = "sent" /\ rows[k].last_error = "x"
        /\ pc[w] = "returned" /\ key[w] = k /\ result[w] = "false"

\* C3: once forwarded_mark_sent has updated the row of a key, no later
\* forwarded_claim of the key is granted.  (The claim says "returns false";
\* this states only that it does not return true.)
C3_SentIsTerminalForClaim ==
    [][\A w \in Workers :
          (ClaimReturns(w) /\ sent_applied[key[w]]) => result'[w] # "true"]_vars

\* C4: forwarded_claim that fetched a pending row: refused, the row left as
\* fetched, when less than pending_timeout_seconds elapsed from the last claim
\* to the `now` of the call; granted, with updated_at refreshed and the status
\* still pending, otherwise.
C4_PendingClaimByElapsed ==
    [][\A w \in Workers :
          (ClaimReturns(w) /\ seen[w].status = "pending") =>
              IF Elapsed(w, seen[w]) < retry[w]
              THEN result'[w] = "false" /\ rows'[key[w]] = seen[w]
              ELSE /\ result'[w] = "true"
                   /\ rows'[key[w]] =
                        [seen[w] EXCEPT !.status = "pending", !.updated_at = tnow[w]]]_vars

\* a stale pending row has been claimed again
C4_Witness ==
    \E w \in Workers :
        /\ pc[w] = "returned" /\ result[w] = "true"
        /\ seen[w].status = "pending"
        /\ Elapsed(w, seen[w]) >= retry[w]
        /\ rows[key[w]].status = "pending"
        /\ rows[key[w]].updated_at = tnow[w]
        /\ rows[key[w]].created_at < tnow[w]

AllowedStatusChange(from, to) ==
    \/ from = to
    \/ from = "absent" /\ to = "pending"
    \/ from = "pending" /\ to \in {"sent", "failed"}
    \/ from = "failed" /\ to = "pending"
    \/ to = "absent"

\* C6: the status of a row only changes pending->sent, pending->failed,
\* failed->pending; a sent row keeps its status.
C6_StatusTransitions ==
    [][\A k \in Keys : AllowedStatusChange(rows[k].status, rows'[k].status)]_vars

\* C7: forwarded_mark_failed on an existing row sets its status to failed
\* and adds one to its failure counter.
C7_MarkFailedCounts ==
    [][\A k \in Keys :
          (rows[k] # NoRow /\ \E e \in Errors : CallMarkFailed(k, e)) =>
              /\ rows'[k].status = "failed"
              /\ rows'[k].fail_count = rows[k].fail_count + 1]_vars

====
